---- MODULE Spec2Model ----
(***************************************************************************)
(* A model of EdithEditor (src/src/ui/editor.js): the two-mode editor that *)
(* keeps a visual container and a CodeMirror source editor, the link       *)
(* dialog flow and the key handler.                                        *)
(*                                                                         *)
(* Markup is a sequence of characters over Alphabet.  "sp" is a space,     *)
(* "lf" is \n and "cr" is \r; "br", "nbsp" and "link" stand for the        *)
(* elements the content transformer inserts.  The innerHTML of a container *)
(* is a string cell: the markup read is the markup last assigned.          *)
(***************************************************************************)
EXTENDS Integers, Sequences, FiniteSets

\* ---------------------------------------------------------------- bounds
MaxLen == 2
MaxToggles == 4
MaxDialogs == 2
MaxKeys == 3
MaxText == 2
MaxDepth == 1
MaxPastes == 1
MaxOps == 3

\* ---------------------------------------------------------------- inputs
Alphabet == {"a", "sp", "lf", "cr"}

RECURSIVE StringsUpTo(_)
StringsUpTo(n) ==
  IF n = 0 THEN {<< >>}
  ELSE LET shorter == StringsUpTo(n - 1)
       IN shorter \cup {Append(s, ch) : s \in shorter, ch \in Alphabet}

\* A few longer markups: whitespace on both sides of a line, whitespace
\* inside a line, each kind of line terminator between two letters.
LongerContents ==
  { <<"sp", "a", "sp">>,
    <<"a", "sp", "a">>,
    <<"a", "cr", "a">>,
    <<"sp", "a", "cr", "lf", "a", "sp">> }

Contents == StringsUpTo(MaxLen) \cup LongerContents

InitialContents == { << >>, <<"sp", "a", "lf", "sp">> }

Ranges == {"r1", "r2"}
NoRange == "none"

LinkData == {[text |-> "t", href |-> "h", openInNewTab |-> b] : b \in BOOLEAN}

KeyEvents ==
  [type : {"keydown", "keyup"}, keyCode : {13, 32, 65},
   metaKey : BOOLEAN, ctrlKey : BOOLEAN]

\* The text/plain payloads of a clipboard: "cr" is \r, "lf" is \n.
RECURSIVE TextsUpTo(_)
TextsUpTo(n) ==
  IF n = 0 THEN {<< >>}
  ELSE LET shorter == TextsUpTo(n - 1)
       IN shorter \cup {Append(t, ch) : t \in shorter, ch \in {"a", "cr", "lf"}}

LongerTexts ==
  { <<"a", "cr", "lf", "a", "lf", "a">>,
    <<"a", "lf", "cr", "lf", "lf", "a">>,
    <<"cr", "a", "sp", "a", "lf">> }

Texts == TextsUpTo(MaxText) \cup LongerTexts

\* The text/html payloads: "<html><body>" and "</body></html>" are one
\* token each.
HtmlPayloads ==
  { <<"a">>,
    <<"a", "cr", "lf", "a">>,
    <<"<html><body>", "a", "lf", "a", "</body></html>">> }

PlainEvents == [types : {{"text/plain"}}, text : Texts, html : {<< >>}]
HtmlEvents == [types : {{"text/plain", "text/html"}}, text : {<<"a">>},
               html : HtmlPayloads]

\* DOM nodes, as far as the paste handler looks at them
Node(tag, class) == [tag |-> tag, class |-> class]
TextNode == Node("#text", "")
ElementTags == {"B", "I", "U", "S", "Q", "SPAN"}

\* the editing root and what lies above it in the page
RootChain ==
  << Node("DIV", "edith-visual"), Node("DIV", "edith-editing-area"),
     Node("BODY", ""), Node("HTML", ""), Node("#document", "") >>

RECURSIVE ChainsUpTo(_)
ChainsUpTo(n) ==
  IF n = 0 THEN {<< >>}
  ELSE LET shorter == ChainsUpTo(n - 1)
       IN shorter \cup {Append(c, Node(t, "")) : c \in shorter, t \in ElementTags}

LongerChains ==
  { <<Node("B", ""), Node("I", "")>>,
    <<Node("SPAN", ""), Node("U", ""), Node("S", "")>>,
    <<Node("Q", ""), Node("SPAN", ""), Node("B", "")>> }

\* the nodes from the anchor node up to the document: the anchor is a text
\* node or an element below the root, or the root itself
AnchorPaths ==
  {<<a>> \o c \o RootChain :
     a \in {TextNode, Node("B", "")}, c \in ChainsUpTo(MaxDepth) \cup LongerChains}
  \cup {RootChain}

RangeShapes == [collapsed : BOOLEAN, container : {"text", "element"}]

\* no selection: no range and a null anchor node
NoSelection == [range |-> << >>, path |-> << >>]
\* a range whose common ancestor is a text node starts and ends in that
\* node, so the anchor is a text node; a collapsed range sits in its anchor
InDom(s) ==
  /\ s.range[1].container = "text" => s.path[1] = TextNode
  /\ (s.range[1].collapsed /\ s.range[1].container = "element")
       => s.path[1] # TextNode

Selections ==
  {NoSelection}
  \cup {s \in [range : {<<r>> : r \in RangeShapes}, path : AnchorPaths] :
         InDom(s)}

DefaultPath == <<TextNode>> \o RootChain

DefaultSelections ==
  {NoSelection}
  \cup {s \in [range : {<<r>> : r \in RangeShapes}, path : {DefaultPath}] :
         InDom(s)}

\* the paste events and the selections they land on
PasteInputs ==
  (PlainEvents \X DefaultSelections)
  \cup ([types : {{"text/plain", "text/html"}}, text : {<<"a">>},
          html : {<<"a">>}] \X Selections)
  \cup (HtmlEvents \X DefaultSelections)

\* ------------------------------------------------------------- constants
EditorModes == [Visual |-> "Visual", Code |-> "Code"]
Hidden == "edith-hidden"
Enter == 13
Space == 32

VARIABLES
  rendered,      \* render() has built editors.visual and editors.code
  content,       \* this.content
  mode,          \* this.mode
  visualHTML,    \* this.editors.visual.innerHTML
  visualClass,   \* Hidden \in visualClass: editors.visual carries the marker
  codeClass,     \* the same for editors.code
  codeChildren,  \* number of child elements of editors.code
  codeMirror,    \* this.codeMirror: 0 is null, else an index into views
  views,         \* every EditorView created: [doc: lines, destroys: Nat]
  events,        \* the payloads passed to ctx.trigger(Events.modeChanged, _)
  ret,           \* value returned by the last call: << >> is undefined
  raised,        \* the last call raised to its caller
  cleanToggles,  \* toggles since the content was last replaced or edited
  selection,     \* the document's selection range, or NoRange
  dialogs,       \* per insertLink() call: the range it captured
  pending,       \* modals shown and not yet completed
  calls,         \* calls made by the link flow, in order
  results,       \* what each completed modal passed to its callback
  keys,          \* key events handled: [e, prevented, inserted]
  removed,       \* the editor elements destroy() took out of the page
  paste          \* how the last paste event was handled, << >> if none

modeVars == <<rendered, content, mode, visualHTML, visualClass, codeClass,
              codeChildren, codeMirror, views, events, cleanToggles, removed>>
callVars == <<ret, raised>>
linkVars == <<selection, dialogs, pending, calls, results>>
vars == <<modeVars, callVars, linkVars, keys, paste>>

\* ------------------------------------------------------- pure functions
IsSpace(ch) == ch \in {"sp", "lf", "cr"}

RECURSIVE TrimStart(_)
TrimStart(s) ==
  IF s # << >> /\ IsSpace(Head(s)) THEN TrimStart(Tail(s)) ELSE s

RECURSIVE TrimEnd(_)
TrimEnd(s) ==
  IF s # << >> /\ IsSpace(s[Len(s)])
  THEN TrimEnd(SubSeq(s, 1, Len(s) - 1)) ELSE s

Trim(s) == TrimEnd(TrimStart(s))

\* The lines of a text: CodeMirror splits at \r\n, \r or \n.
RECURSIVE SplitFrom(_, _, _, _)
SplitFrom(s, i, cur, acc) ==
  IF i > Len(s) THEN Append(acc, cur)
  ELSE IF s[i] = "cr"
       THEN IF i < Len(s) /\ s[i + 1] = "lf"
            THEN SplitFrom(s, i + 2, << >>, Append(acc, cur))
            ELSE SplitFrom(s, i + 1, << >>, Append(acc, cur))
       ELSE IF s[i] = "lf"
            THEN SplitFrom(s, i + 1, << >>, Append(acc, cur))
            ELSE SplitFrom(s, i + 1, Append(cur, s[i]), acc)

SplitLines(s) == SplitFrom(s, 1, << >>, << >>)

RECURSIVE Join(_)
Join(lines) ==
  IF Len(lines) = 0 THEN << >>
  ELSE IF Len(lines) = 1 THEN lines[1]
  ELSE lines[1] \o <<"lf">> \o Join(Tail(lines))

MapTrim(lines) == [i \in 1..Len(lines) |-> Trim(lines[i])]

\* a variant that trims only the start of each line
TrimmedDocStartOnly(doc) == Join([i \in 1..Len(doc) |-> TrimStart(doc[i])])

\* codeMirror.state.doc.toJSON().map((line) => line.trim()).join("\n")
TrimmedDoc(doc) == Join(MapTrim(doc))


\* ------------------------------------------------------------ construction
\* function EdithEditor(ctx, options)
Init ==
  /\ rendered = FALSE
  /\ content \in InitialContents
  /\ mode = EditorModes.Visual
  /\ visualHTML = << >>
  /\ visualClass = {}
  /\ codeClass = {}
  /\ codeChildren = 0
  /\ codeMirror = 0
  /\ views = << >>
  /\ events = << >>
  /\ ret = << >>
  /\ raised = FALSE
  /\ cleanToggles = 0
  /\ selection = NoRange
  /\ dialogs = << >>
  /\ pending = {}
  /\ calls = << >>
  /\ results = << >>
  /\ keys = << >>
  /\ removed = {}
  /\ paste = << >>

Returns(v) == ret' = v /\ raised' = FALSE

\* a TypeError reaches the caller
Raises == ret' = << >> /\ raised' = TRUE

\* EdithEditor.prototype.render, called once by the owner of the editor
render ==
  /\ ~rendered
  /\ rendered' = TRUE
  /\ visualHTML' = content
  /\ visualClass' = {"edith-visual"}
  /\ codeClass' = {"edith-code", Hidden}
  /\ Returns(<< >>)
  /\ UNCHANGED <<content, mode, codeChildren, codeMirror, views, events,
                 cleanToggles, removed, linkVars, keys, paste>>

\* a variant that inserts at 0 without replacing the old text
DispatchInsertOnly(view, c) ==
  [view EXCEPT !.doc = SplitLines(c \o Join(view.doc))]

\* codeMirror.dispatch({changes: {from: 0, to: doc.length, insert: content}})
Dispatch(view, c) == [view EXCEPT !.doc = SplitLines(c)]

\* EdithEditor.prototype.setContent
setContent(c) ==
  /\ rendered
  /\ IF mode = EditorModes.Visual
     THEN /\ visualHTML' = c
          /\ views' = views
          /\ cleanToggles' = 0
          /\ Returns(<< >>)
     ELSE IF codeMirror = 0
     THEN \* this.codeMirror.dispatch on null, after destroy()
          /\ Raises
          /\ UNCHANGED <<visualHTML, views, cleanToggles>>
     ELSE /\ views' = [views EXCEPT ![codeMirror] = Dispatch(@, c)]
          /\ visualHTML' = visualHTML
          /\ cleanToggles' = 0
          /\ Returns(<< >>)
  /\ UNCHANGED <<rendered, removed, content, mode, visualClass, codeClass,
                 codeChildren, codeMirror, events, linkVars, keys, paste>>

\* a variant that returns the lines as they are
GetContentDocUntrimmed(doc) == Join(doc)

\* getContent: codeMirror.state.doc.toJSON().map((line) => line.trim()).join("\n")
GetContentDoc(doc) == Join(MapTrim(doc))

\* the class list of editors.code after getContent() ran in Code mode
GetContentCodeClass(cls) == cls \cup {Hidden}

\* EdithEditor.prototype.getContent
getContent ==
  /\ rendered
  /\ IF mode = EditorModes.Visual
     THEN /\ Returns(<<visualHTML>>)
          /\ codeClass' = codeClass
     ELSE /\ codeClass' = GetContentCodeClass(codeClass)
          /\ IF codeMirror = 0
             THEN Raises  \* this.codeMirror.state on null, after destroy()
             ELSE Returns(<<GetContentDoc(views[codeMirror].doc)>>)
  /\ UNCHANGED <<rendered, removed, content, mode, visualHTML, visualClass,
                 codeChildren, codeMirror, views, events, cleanToggles,
                 linkVars, keys, paste>>

\* a variant that starts the source editor from the constructor's content
NewEditorViewFromContent(doc) == [doc |-> SplitLines(content), destroys |-> 0]

\* new EditorView({doc: ..., parent: codeMirrorEl})
NewEditorView(doc) == [doc |-> SplitLines(doc), destroys |-> 0]

\* a variant that forgets to destroy the editor
DestroyViewSkipped(view) == view

\* codeMirror.destroy()
DestroyView(view) == [doc |-> << << >> >>, destroys |-> view.destroys + 1]

\* a variant that keeps the reference to the destroyed instance
KeptCodeMirror == codeMirror

\* this.codeMirror = null
DiscardedCodeMirror == 0

\* a variant that leaves the old mount element in the code container
KeptCodeChildren == codeChildren

\* this.editors.code.innerHTML = ""
EmptiedCode == 0

\* toggleCodeView, the branch taken in Visual mode
ToCode ==
  /\ mode' = EditorModes.Code
  /\ visualClass' = visualClass \cup {Hidden}
  /\ codeClass' = codeClass \ {Hidden}
  /\ codeChildren' = codeChildren + 1
  /\ views' = Append(views, NewEditorView(visualHTML))
  /\ codeMirror' = Len(views) + 1
  /\ visualHTML' = visualHTML

\* toggleCodeView, the branch taken in Code mode
ToVisual ==
  /\ mode' = EditorModes.Visual
  /\ codeClass' = codeClass \cup {Hidden}
  /\ visualClass' = visualClass \ {Hidden}
  /\ visualHTML' = TrimmedDoc(views[codeMirror].doc)
  /\ views' = [views EXCEPT ![codeMirror] = DestroyView(@)]
  /\ codeMirror' = DiscardedCodeMirror
  /\ codeChildren' = EmptiedCode

\* toggleCodeView in Code mode after destroy(): the mode and the classes
\* are switched, then this.codeMirror.state is read on null
ToVisualRaises ==
  /\ mode' = EditorModes.Visual
  /\ codeClass' = codeClass \cup {Hidden}
  /\ visualClass' = visualClass \ {Hidden}
  /\ cleanToggles' = 0
  /\ Raises
  /\ UNCHANGED <<visualHTML, views, codeMirror, codeChildren, events>>

\* a variant that notifies before the mode is switched
ModeChangedBeforeSwitch(old, new) == [mode |-> old]

\* this.ctx.trigger(Events.modeChanged, { mode: this.mode })
ModeChanged(old, new) == [mode |-> new]

\* EdithEditor.prototype.toggleCodeView
toggleCodeView ==
  /\ rendered
  /\ Len(events) < MaxToggles
  /\ IF mode = EditorModes.Code /\ codeMirror = 0
     THEN ToVisualRaises
     ELSE /\ IF mode = EditorModes.Visual THEN ToCode ELSE ToVisual
          /\ events' = Append(events, ModeChanged(mode, mode'))
          /\ cleanToggles' = cleanToggles + 1
          /\ Returns(<< >>)
  /\ UNCHANGED <<rendered, removed, content, linkVars, keys, paste>>

\* a variant of destroy() that keeps the reference
DestroyedCodeMirrorKept == codeMirror

\* destroy(): this.codeMirror = null
DestroyedCodeMirror == 0

\* EdithEditor.prototype.destroy
destroy ==
  /\ rendered
  /\ IF mode = EditorModes.Visual
     THEN /\ removed' = removed \cup {"visual"}
          /\ Returns(<< >>)
          /\ UNCHANGED <<views, codeMirror>>
     ELSE IF codeMirror = 0
     THEN \* this.codeMirror.destroy() on null, after an earlier destroy()
          /\ Raises
          /\ UNCHANGED <<views, codeMirror, removed>>
     ELSE /\ views' = [views EXCEPT ![codeMirror] = DestroyView(@)]
          /\ codeMirror' = DestroyedCodeMirror
          /\ removed' = removed \cup {"code"}
          /\ Returns(<< >>)
  /\ UNCHANGED <<rendered, content, mode, visualHTML, visualClass, codeClass,
                 codeChildren, events, cleanToggles, linkVars, keys, paste>>

\* the user edits the visible contenteditable surface
UserEditVisual(c) ==
  /\ rendered
  /\ mode = EditorModes.Visual
  /\ Hidden \notin visualClass
  /\ visualHTML' = c
  /\ cleanToggles' = 0
  /\ Returns(<< >>)
  /\ UNCHANGED <<rendered, removed, content, mode, visualClass, codeClass,
                 codeChildren, codeMirror, views, events, linkVars, keys,
                 paste>>

\* the user edits the text of the visible source editor
UserEditCode(c) ==
  /\ codeMirror # 0
  /\ Hidden \notin codeClass
  /\ views' = [views EXCEPT ![codeMirror] = Dispatch(@, c)]
  /\ cleanToggles' = 0
  /\ Returns(<< >>)
  /\ UNCHANGED <<rendered, removed, content, mode, visualHTML, visualClass,
                 codeClass, codeChildren, codeMirror, events, linkVars,
                 keys, paste>>

Next ==
  \/ render
  \/ \E c \in Contents : setContent(c)
  \/ getContent
  \/ toggleCodeView
  \/ \E c \in LongerContents : UserEditVisual(c)
  \/ \E c \in LongerContents : UserEditCode(c)

Spec == Init /\ [][Next]_vars

NextLife ==
  \/ render
  \/ \E c \in LongerContents : setContent(c)
  \/ getContent
  \/ toggleCodeView
  \/ destroy

SpecLife == Init /\ [][NextLife]_vars


\* ------------------------------------------------------------ link flow
\* the user moves the caret, or focus leaves the editing surface
SelectionChange(r) ==
  /\ rendered
  /\ r # selection
  /\ selection' = r
  /\ UNCHANGED <<modeVars, callVars, dialogs, pending, calls, results, keys,
                 paste>>

\* getSelection() of core/range.js
GetSelection == selection

\* restoreSelection({ sel, range }) of core/range.js
RestoreSelection(range) == range

\* wrapInsideLink(text, href, openInNewTab) of core/edit.js, on the markup
WrapInsideLink(markup, data) == Append(markup, "link")

Call(op, d, range) == [op |-> op, dialog |-> d, range |-> range]

\* EdithEditor.prototype.insertLink
insertLink ==
  /\ rendered
  /\ Len(dialogs) < MaxDialogs
  /\ LET d == Len(dialogs) + 1
         range == GetSelection
     IN /\ dialogs' = Append(dialogs, range)
        /\ IF range = NoRange
           THEN \* range.toString() on a missing range
                /\ raised' = TRUE
                /\ ret' = << >>
                /\ calls' = Append(calls, Call("getSelection", d, range))
                /\ pending' = pending
           ELSE /\ calls' = calls \o <<Call("getSelection", d, range),
                                       Call("show", d, range)>>
                /\ pending' = pending \cup {d}
                /\ Returns(<< >>)
  /\ UNCHANGED <<modeVars, selection, results, keys, paste>>

\* a variant that reads the range of the latest insertLink() call
LatestRange(d) == dialogs[Len(dialogs)]

\* the const range the callback of modal d closed over
ClosureRange(d) == dialogs[d]

\* a variant without the null check
NeverCancelled(data) == FALSE

\* data === null
IsCancelled(data) == data = << >>

\* the callback of the modal opened by insertLink
ModalCallback(d, data) ==
  /\ d \in pending
  /\ pending' = pending \ {d}
  /\ results' = Append(results, [dialog |-> d, data |-> data])
  /\ IF IsCancelled(data)
     THEN UNCHANGED <<visualHTML, selection, calls>>
     ELSE /\ selection' = RestoreSelection(ClosureRange(d))
          /\ visualHTML' = WrapInsideLink(visualHTML, data)
          /\ calls' = calls \o <<Call("restoreSelection", d, ClosureRange(d)),
                                 Call("wrapInsideLink", d, selection')>>
  /\ UNCHANGED <<rendered, removed, content, mode, visualClass, codeClass,
                 codeChildren, codeMirror, views, events, cleanToggles,
                 callVars, dialogs, keys, paste>>

NextLink ==
  \/ render
  \/ \E r \in Ranges \cup {NoRange} : SelectionChange(r)
  \/ insertLink
  \/ \E d \in pending, data \in {<< >>} \cup {<<x>> : x \in LinkData} :
       ModalCallback(d, data)

SpecLink == Init /\ [][NextLink]_vars

\* ---------------------------------------------------------- key handler
\* replaceSelectionByHtml(html) of core/edit.js, on the markup
ReplaceSelectionByHtml(markup, html) == markup \o html

Handled(prevent, html) == [prevent |-> prevent, html |-> html]

\* a variant that inserts on every Enter event
processKeyEventAnyType(e) ==
  IF e.keyCode = Enter THEN Handled(TRUE, <<"br">>)
  ELSE Handled(FALSE, << >>)

\* EdithEditor.prototype._processKeyEvent
processKeyEvent(e) ==
  IF e.keyCode = Enter
  THEN Handled(TRUE, IF e.type = "keydown" THEN <<"br">> ELSE << >>)
  ELSE Handled(FALSE, << >>)

\* EdithEditor.prototype._processKeyEventWithMeta
processKeyEventWithMeta(e) ==
  IF e.keyCode = Space
  THEN Handled(TRUE, IF e.type = "keydown" THEN <<"nbsp">> ELSE << >>)
  ELSE Handled(FALSE, << >>)

\* a variant that looks at the meta key only
HasMetaKeyOnly(e) == e.metaKey

\* e.metaKey || e.ctrlKey
HasMeta(e) == e.metaKey \/ e.ctrlKey

\* EdithEditor.prototype.onKeyEvent
onKeyEvent(e) ==
  /\ rendered
  /\ Len(keys) < MaxKeys
  /\ LET h == IF HasMeta(e) THEN processKeyEventWithMeta(e)
              ELSE processKeyEvent(e)
     IN /\ visualHTML' = IF h.html # << >>
                         THEN ReplaceSelectionByHtml(visualHTML, h.html)
                         ELSE visualHTML
        /\ keys' = Append(keys, [e |-> e, prevented |-> h.prevent,
                                 inserted |-> h.html])
  /\ UNCHANGED <<rendered, removed, content, mode, visualClass, codeClass,
                 codeChildren, codeMirror, views, events, cleanToggles,
                 callVars, linkVars, paste>>

NextKey ==
  \/ render
  \/ \E e \in KeyEvents : onKeyEvent(e)

SpecKey == Init /\ [][NextKey]_vars

\* ---------------------------------------------------------------- paste
IsLineTerminator(ch) == ch \in {"cr", "lf"}

\* a variant without the +: every line terminator is replaced
RECURSIVE ReplaceEachNewline(_, _)
ReplaceEachNewline(str, by) ==
  IF str = << >> THEN << >>
  ELSE IF IsLineTerminator(Head(str))
       THEN by \o ReplaceEachNewline(Tail(str), by)
       ELSE <<Head(str)>> \o ReplaceEachNewline(Tail(str), by)

\* str.replace(/[\r\n]+/g, by)
RECURSIVE ReplaceNewlines(_, _)
ReplaceNewlines(str, by) ==
  IF str = << >> THEN << >>
  ELSE IF IsLineTerminator(Head(str))
       THEN IF Len(str) > 1 /\ IsLineTerminator(str[2])
            THEN ReplaceNewlines(Tail(str), by)
            ELSE by \o ReplaceNewlines(Tail(str), by)
       ELSE <<Head(str)>> \o ReplaceNewlines(Tail(str), by)

\* the literal text "<br />" the plain path puts in place of line ends
BrText == "<br />"

\* e.clipboardData.getData("text/plain").replace(/[\r\n]+/g, "<br />")
PlainPasteText(e) == ReplaceNewlines(e.text, <<BrText>>)

\* document.createTextNode(text)
CreateTextNode(text) == [type |-> "text", data |-> text]

\* hasTagName(node, names) of core/dom.js
LowerCase == [B |-> "b", I |-> "i", U |-> "u", S |-> "s", Q |-> "q",
              SPAN |-> "span", DIV |-> "div", BODY |-> "body", HTML |-> "html"]
HasTagName(node, names) == LowerCase[node.tag] \in names

NoStyle == [B |-> FALSE, I |-> FALSE, U |-> FALSE, S |-> FALSE, Q |-> FALSE]

\* a node with a classList: an element, not the document
HasClassList(node) == node.tag # "#document"

Walked(raises, style, visited) ==
  [raises |-> raises, style |-> style, visited |-> visited]

\* the while loop of onPasteEvent: dest is path[i]; visited lists the
\* indices dest took after the anchor
RECURSIVE WalkFrom(_, _, _, _)
WalkFrom(path, i, style, visited) ==
  IF i > Len(path) \/ i = Len(path)
  THEN Walked(TRUE, style, visited)   \* dest or dest.parentNode is null
  ELSE IF ~HasClassList(path[i + 1])
  THEN Walked(TRUE, style, visited)   \* document.classList is undefined
  ELSE IF path[i + 1].class = "edith-visual"
  THEN Walked(FALSE, style, visited)
  ELSE LET dest == path[i + 1]
       IN WalkFrom(path, i + 1,
                   IF HasTagName(dest, {"b", "i", "u", "s", "q"})
                   THEN [style EXCEPT ![dest.tag] = TRUE] ELSE style,
                   Append(visited, i + 1))

\* a variant that starts the walk one node too high
DetectStyleFromParent(path) == WalkFrom(path, 2, NoStyle, << >>)

\* let dest = sel.anchorNode; const style = {...}; while (...) {...}
DetectStyle(path) == WalkFrom(path, 1, NoStyle, << >>)

\* html.replace(/[\r\n]+/g, " "), wrapped into <html><body> when it is not
WrappedHtml(e) ==
  LET html == ReplaceNewlines(e.html, <<"sp">>)
  IN IF html # << >> /\ Head(html) = "<html><body>" THEN html
     ELSE <<"<html><body>">> \o html \o <<"</body></html>">>

\* cleanPastedHtml(html, style) of core/edit.js, and the fragment built
\* from its child nodes
CleanPastedHtml(html, style) ==
  [type |-> "fragment", html |-> html, style |-> style]

\* range && !range.collapsed &&
\* range.commonAncestorContainer.nodeType === Node.TEXT_NODE
ReplacesSelection(range) ==
  /\ range # << >>
  /\ ~range[1].collapsed
  /\ range[1].container = "text"

\* what one run of onPasteEvent did: the calls it made, the ancestor walk
\* (none on the plain path), the node it inserted, whether it raised
Pasted(e, s, ops, walk, inserted, raises) ==
  [e |-> e, s |-> s, ops |-> ops, walk |-> walk, inserted |-> inserted,
   raises |-> raises]

\* the part of onPasteEvent after the content was built: delete the
\* selection when it is to be replaced, then range.insertNode(node)
DeleteAndInsert(e, s, ops, walk, node) ==
  LET ops2 == IF ReplacesSelection(s.range)
              THEN Append(ops, "deleteContents") ELSE ops
  IN IF s.range = << >>
     THEN Pasted(e, s, ops2, walk, << >>, TRUE)  \* range.insertNode on no range
     ELSE Pasted(e, s, Append(ops2, "insertNode"), walk, <<node>>, FALSE)

\* onPasteEvent as a function of the event and of the selection it finds
PasteOutcome(e, s) ==
  LET ops == <<"preventDefault", "stopPropagation", "getSelection">>
  IN IF "text/html" \notin e.types
     THEN DeleteAndInsert(e, s, ops, << >>, CreateTextNode(PlainPasteText(e)))
     ELSE LET w == DetectStyle(s.path)
          IN IF w.raises
             THEN Pasted(e, s, ops, <<w>>, << >>, TRUE)
             ELSE DeleteAndInsert(e, s, ops, <<w>>,
                                  CleanPastedHtml(WrappedHtml(e), w.style))

\* range.deleteContents(), on the markup: the selected content goes
DeleteContents(markup) ==
  IF markup = << >> THEN markup ELSE SubSeq(markup, 1, Len(markup) - 1)

\* range.insertNode(node), on the markup
InsertNode(markup, node) == Append(markup, "#" \o node.type)

PastedNodes(markup) ==
  Cardinality({i \in 1..Len(markup) : markup[i] \in {"#text", "#fragment"}})

\* EdithEditor.prototype.onPasteEvent
onPasteEvent(e, s) ==
  /\ rendered
  /\ PastedNodes(visualHTML) < MaxPastes
  /\ (s.range = << >>) <=> (selection = NoRange)
  /\ LET p == PasteOutcome(e, s)
         deleted == \E i \in 1..Len(p.ops) : p.ops[i] = "deleteContents"
         kept == IF deleted THEN DeleteContents(visualHTML) ELSE visualHTML
     IN /\ paste' = <<p>>
        /\ visualHTML' = IF p.inserted = << >> THEN kept
                         ELSE InsertNode(kept, p.inserted[1])
        /\ IF p.raises THEN Raises ELSE Returns(<< >>)
  /\ UNCHANGED <<rendered, removed, content, mode, visualClass, codeClass,
                 codeChildren, codeMirror, views, events, cleanToggles,
                 linkVars, keys>>

NextPaste ==
  \/ render
  \/ \E r \in Ranges \cup {NoRange} : SelectionChange(r)
  \/ \E x \in PasteInputs : onPasteEvent(x[1], x[2])

SpecPaste == Init /\ [][NextPaste]_vars

\* ------------------------------------------------------ every operation
\* One editor driven through all of its operations, each with a few inputs.
FewContents == { <<"sp", "a", "cr", "lf", "a", "sp">> }

FewKeyEvents ==
  { [type |-> "keydown", keyCode |-> Enter, metaKey |-> FALSE,
     ctrlKey |-> FALSE] }

FewPasteInputs ==
  [types : {{"text/plain"}}, text : {<<"a">>}, html : {<< >>}]
  \X {NoSelection,
      [range |-> <<[collapsed |-> FALSE, container |-> "text"]>>,
       path |-> DefaultPath]}

FewLinkData == {[text |-> "t", href |-> "h", openInNewTab |-> TRUE]}

\* the toggles, link dialogs, key events and pastes so far
OpsLogged ==
  Len(events) + Len(dialogs) + Len(keys) + PastedNodes(visualHTML)

NextAll ==
  \/ render
  \/ \E c \in FewContents : setContent(c)
  \/ getContent
  \/ OpsLogged < MaxOps /\ toggleCodeView
  \/ destroy
  \/ \E r \in {"r1", NoRange} : SelectionChange(r)
  \/ OpsLogged < MaxOps /\ insertLink
  \/ \E d \in pending, data \in {<< >>} \cup {<<x>> : x \in FewLinkData} :
       ModalCallback(d, data)
  \/ \E e \in FewKeyEvents : OpsLogged < MaxOps /\ onKeyEvent(e)
  \/ \E x \in FewPasteInputs : OpsLogged < MaxOps /\ onPasteEvent(x[1], x[2])

SpecAll == Init /\ [][NextAll]_vars

\* ================================================================ claims
Visible(cls) == Hidden \notin cls
ToVisualStep == mode = EditorModes.Code /\ mode' = EditorModes.Visual
ToCodeStep == mode = EditorModes.Visual /\ mode' = EditorModes.Code
Live(v) == v # 0 /\ views[v].destroys = 0

\* C1: after render(), exactly one of the two surfaces is visible (does not
\* carry the hidden marker), and it is the surface of the current mode.
C1_ExactlyOneSurfaceVisible ==
  rendered =>
    /\ Visible(visualClass) # Visible(codeClass)
    /\ Visible(visualClass) <=> mode = EditorModes.Visual
    /\ Visible(codeClass) <=> mode = EditorModes.Code

\* C2: the source-editor instance is absent exactly when the mode is Visual
\* and present (a live instance) exactly when it is Code; the mode is one
\* of Visual and Code and is Visual until the first toggle.
C2_CodeMirrorIffCode ==
  /\ mode \in {EditorModes.Visual, EditorModes.Code}
  /\ codeMirror = 0 <=> mode = EditorModes.Visual
  /\ Live(codeMirror) <=> mode = EditorModes.Code
  /\ events = << >> => mode = EditorModes.Visual

C2_Witness ==
  /\ mode = EditorModes.Code
  /\ Len(events) = 3
  /\ Live(codeMirror)
  /\ ret # << >>

\* N: split into lines, trim each line, rejoin with one line separator
NormalizeLines(c) == Join(MapTrim(SplitLines(c)))
LinesTrimmed(c) == \A i \in 1..Len(SplitLines(c)) :
                     Trim(SplitLines(c)[i]) = SplitLines(c)[i]
OnlyLf(c) == \A i \in 1..Len(c) : c[i] # "cr"

\* C3 as stated: two toggles with no edit in between turn the visual
\* content c into N(c), N is idempotent, a further pair of toggles leaves
\* N(c) unchanged, and content whose lines carry no leading or trailing
\* whitespace is returned unchanged.
C3_AsStated ==
  [][(ToVisualStep /\ cleanToggles >= 1) =>
       /\ visualHTML' = NormalizeLines(visualHTML)
       /\ NormalizeLines(visualHTML') = visualHTML'
       /\ cleanToggles >= 3 => visualHTML' = visualHTML
       /\ LinesTrimmed(visualHTML) => visualHTML' = visualHTML]_vars

\* C3 amended: two toggles with no edit in between turn the visual content
\* c into N(c), N is idempotent, a further pair of toggles leaves N(c)
\* unchanged, and content whose lines carry no leading or trailing
\* whitespace and whose line terminators are all single \n is returned
\* unchanged.
C3_TwoTogglesNormalize ==
  [][(ToVisualStep /\ cleanToggles >= 1) =>
       /\ visualHTML' = NormalizeLines(visualHTML)
       /\ NormalizeLines(visualHTML') = visualHTML'
       /\ cleanToggles >= 3 => visualHTML' = visualHTML
       /\ (LinesTrimmed(visualHTML) /\ OnlyLf(visualHTML))
            => visualHTML' = visualHTML]_vars

C3_Witness ==
  /\ mode = EditorModes.Visual
  /\ cleanToggles = 4
  /\ visualHTML = <<"a", "lf", "a">>

\* C4: a toggle made in Code mode sets the visual markup to the source
\* editor's current lines, each trimmed and joined in order with one line
\* separator, destroys and discards the instance, empties the code
\* container and leaves the mode Visual.
C4_ToVisualEffect ==
  [][mode = EditorModes.Code /\ events' # events =>
       /\ visualHTML' = Join(MapTrim(views[codeMirror].doc))
       /\ views'[codeMirror].destroys = 1
       /\ codeMirror' = 0
       /\ codeChildren' = 0
       /\ mode' = EditorModes.Visual]_vars

C4_Witness ==
  /\ mode = EditorModes.Visual
  /\ Len(events) = 2
  /\ cleanToggles = 1
  /\ content = << >>
  /\ visualHTML = <<"a", "sp", "a">>
  /\ views[1].destroys = 1

C7_CancelIsNoOp ==
  [][(results' # results /\ results'[Len(results')].data = << >>) =>
       UNCHANGED <<modeVars, callVars, selection, dialogs, calls, keys>>]_vars

C7_Witness ==
  /\ Len(results) = 2
  /\ results[1].data # << >>
  /\ results[2].data = << >>
  /\ Len(calls) = 6
  /\ selection # dialogs[2]

CallsOf(op, d) == {j \in 1..Len(calls) : calls[j].op = op /\ calls[j].dialog = d}

\* C8: the selection is captured inside insertLink() before the dialog is
\* shown; a non-null completion restores the snapshot captured by its own
\* insertLink() call and only then inserts the link, each exactly once per
\* completion; no insertion happens without the restore just before it,
\* whatever the order in which pending dialogs complete.
C8_CaptureRestoreInsertOrder ==
  /\ \A j \in 1..Len(calls) :
       /\ calls[j].op = "show" =>
            /\ j > 1
            /\ calls[j - 1] = Call("getSelection", calls[j].dialog,
                                   dialogs[calls[j].dialog])
       /\ calls[j].op = "wrapInsideLink" =>
            /\ j > 1
            /\ calls[j - 1].op = "restoreSelection"
            /\ calls[j - 1].dialog = calls[j].dialog
       /\ calls[j].op = "restoreSelection" =>
            /\ j < Len(calls)
            /\ calls[j + 1].op = "wrapInsideLink"
            /\ \E i \in 1..(j - 1) :
                 /\ calls[i].op = "getSelection"
                 /\ calls[i].dialog = calls[j].dialog
                 /\ calls[i].range = calls[j].range
                 /\ calls[i + 1] = Call("show", calls[j].dialog, calls[j].range)
  /\ \A d \in 1..Len(dialogs) :
       /\ Cardinality(CallsOf("getSelection", d)) = 1
       /\ Cardinality(CallsOf("restoreSelection", d)) =
            Cardinality({k \in 1..Len(results) :
                           results[k].dialog = d /\ results[k].data # << >>})
       /\ Cardinality(CallsOf("wrapInsideLink", d)) =
            Cardinality(CallsOf("restoreSelection", d))
       /\ Cardinality(CallsOf("restoreSelection", d)) <= 1

C8_Witness ==
  /\ Len(results) = 2
  /\ results[1].dialog = 2 /\ results[1].data # << >>
  /\ results[2].dialog = 1 /\ results[2].data # << >>
  /\ dialogs[1] # dialogs[2]
  /\ calls[Len(calls) - 1] = Call("restoreSelection", 1, dialogs[1])

Modified(e) == e.metaKey \/ e.ctrlKey

\* C9: for every key event, default prevention is requested if and only if
\* no modifier is held and the key is Enter, or a modifier is held and the
\* key is Space; modifier+Enter and unmodified Space request no prevention
\* and insert nothing.
C9_PreventDefaultTable ==
  \A i \in 1..Len(keys) :
    LET e == keys[i].e IN
    /\ keys[i].prevented <=>
         \/ ~Modified(e) /\ e.keyCode = 13
         \/ Modified(e) /\ e.keyCode = 32
    /\ (Modified(e) /\ e.keyCode = 13) =>
         ~keys[i].prevented /\ keys[i].inserted = << >>
    /\ (~Modified(e) /\ e.keyCode = 32) =>
         ~keys[i].prevented /\ keys[i].inserted = << >>

C9_Witness ==
  /\ Len(keys) = 3
  /\ keys[1].e = [type |-> "keydown", keyCode |-> 13, metaKey |-> FALSE,
                  ctrlKey |-> TRUE]
  /\ keys[2].e = [type |-> "keydown", keyCode |-> 32, metaKey |-> FALSE,
                  ctrlKey |-> FALSE]
  /\ keys[3].e = [type |-> "keyup", keyCode |-> 32, metaKey |-> TRUE,
                  ctrlKey |-> FALSE]
  /\ keys[3].prevented

RECURSIVE Count(_, _)
Count(s, tok) ==
  IF s = << >> THEN 0
  ELSE (IF Head(s) = tok THEN 1 ELSE 0) + Count(Tail(s), tok)

KeyDowns(code, modified) ==
  Cardinality({i \in 1..Len(keys) :
                 /\ keys[i].e.type = "keydown"
                 /\ keys[i].e.keyCode = code
                 /\ Modified(keys[i].e) = modified})

\* C10: the key handler changes the document on key-down events only: the
\* line breaks inserted are as many as the unmodified Enter key-downs, the
\* locked-space markers as many as the modifier+Space key-downs, and a
\* key-up inserts nothing.
C10_InsertOnKeyDownOnly ==
  /\ [](/\ Count(visualHTML, "br") = KeyDowns(13, FALSE)
        /\ Count(visualHTML, "nbsp") = KeyDowns(32, TRUE)
        /\ \A i \in 1..Len(keys) :
             keys[i].e.type = "keyup" => keys[i].inserted = << >>)
  /\ [][keys' # keys =>
          IF keys'[Len(keys')].e.type = "keydown"
             /\ ( \/ ~Modified(keys'[Len(keys')].e)
                     /\ keys'[Len(keys')].e.keyCode = 13
                  \/ Modified(keys'[Len(keys')].e)
                     /\ keys'[Len(keys')].e.keyCode = 32 )
          THEN Len(visualHTML') = Len(visualHTML) + 1
          ELSE visualHTML' = visualHTML]_vars

C10_Witness ==
  /\ Len(keys) = 2
  /\ keys[1].e = [type |-> "keydown", keyCode |-> 13, metaKey |-> FALSE,
                  ctrlKey |-> FALSE]
  /\ keys[2].e = [type |-> "keyup", keyCode |-> 13, metaKey |-> FALSE,
                  ctrlKey |-> FALSE]
  /\ Count(visualHTML, "br") = 1

\* ------------------------------------------------- claims on paste, teardown
\* a step of onPasteEvent or of insertLink
PasteStep == paste' # paste

InsertLinkStep == Len(dialogs') = Len(dialogs) + 1

\* C11: a paste event (either path) or an insertLink() call made while the
\* selection snapshot has no range never raises to the caller.
C11_NoRangeNeverRaises ==
  [][((PasteStep \/ InsertLinkStep) /\ selection = NoRange) => ~raised']_vars

\* the text a plain paste inserts, stated position by position: a character
\* that is no line terminator stays, the first terminator of a run becomes
\* the marker, the later terminators of the run disappear
RECURSIVE Flatten(_)
Flatten(parts) ==
  IF parts = << >> THEN << >> ELSE Head(parts) \o Flatten(Tail(parts))

RunsToBreaks(text) ==
  Flatten([i \in 1..Len(text) |->
             IF text[i] \notin {"cr", "lf"} THEN <<text[i]>>
             ELSE IF i = 1 \/ text[i - 1] \notin {"cr", "lf"}
                  THEN <<"<br />">>
                  ELSE << >>])

IsPlainPaste(p) == "text/html" \notin p.e.types

\* C12: a paste without a markup representation turns every maximal run of
\* \r and \n of the plain text into exactly one line-break marker, keeps every
\* other character in order, and inserts the result as one text node (never a
\* parsed fragment); "a\r\na\na" gives three segments and two markers.
C12_PlainTextRunsToOneBreak ==
  /\ [](\A i \in 1..Len(paste) :
          (IsPlainPaste(paste[i]) /\ paste[i].s.range # << >>) =>
            /\ paste[i].inserted =
                 <<[type |-> "text", data |-> RunsToBreaks(paste[i].e.text)]>>
            /\ paste[i].e.text = <<"a", "cr", "lf", "a", "lf", "a">> =>
                 paste[i].inserted[1].data =
                   <<"a", "<br />", "a", "<br />", "a">>)
  /\ [][(PasteStep /\ IsPlainPaste(paste'[1]) /\ selection # NoRange) =>
          /\ visualHTML' # << >>
          /\ visualHTML'[Len(visualHTML')] = "#text"
          /\ SubSeq(visualHTML', 1, Len(visualHTML') - 1) \in
               {visualHTML, SubSeq(visualHTML, 1, Len(visualHTML) - 1)}
       ]_vars

C12_Witness ==
  /\ paste # << >>
  /\ IsPlainPaste(paste[1])
  /\ paste[1].e.text = <<"a", "cr", "lf", "a", "lf", "a">>
  /\ paste[1].inserted # << >>
  /\ paste[1].inserted[1].data =
       <<"a", "<br />", "a", "<br />", "a">>
  /\ Count(visualHTML, "#text") = 1

\* a step that tears a source editor down
TearDownStep ==
  \E i \in 1..Len(views) : views'[i].destroys > views[i].destroys

\* C13 as stated: a source editor is torn down only by the Code -> Visual
\* transition of toggleCodeView().
C13_AsStated == [][TearDownStep => ToVisualStep]_vars

\* C13: a source editor is torn down only by the Code -> Visual transition of
\* toggleCodeView() or by destroy() called in Code mode; setContent,
\* getContent, insertLink and its completion, key and paste events never
\* tear it down.
C13_TornDownByToggleOrDestroy ==
  [][TearDownStep =>
       \/ ToVisualStep
       \/ /\ mode = EditorModes.Code
          /\ mode' = EditorModes.Code
          /\ removed' = removed \cup {"code"}
          /\ codeMirror' = 0]_vars

C13_Witness ==
  /\ Len(views) = 2
  /\ views[1].destroys = 1
  /\ views[2].destroys = 1
  /\ mode = EditorModes.Code
  /\ "code" \in removed
  /\ Len(events) = 3

IsMarkupPaste(p) == "text/html" \in p.e.types

\* where the editing root sits on the way from the anchor to the document
RootIndex(path) == CHOOSE i \in 1..Len(path) : path[i].class = "edith-visual"

\* C14: for every anchor node in the editing surface, the editing root
\* itself included, the ancestor walk of a markup paste ends at the root: it
\* does not raise and visits no node above the root.
C14_WalkStopsAtRoot ==
  \A i \in 1..Len(paste) :
    (IsMarkupPaste(paste[i]) /\ paste[i].s.path # << >>) =>
      /\ ~paste[i].walk[1].raises
      /\ \A k \in 1..Len(paste[i].walk[1].visited) :
           paste[i].walk[1].visited[k] < RootIndex(paste[i].s.path)

\* the style context of an anchor, stated over its ancestors below the root
AncestorStyle(path) ==
  [t \in {"B", "I", "U", "S", "Q"} |->
     \E k \in 2..(RootIndex(path) - 1) : path[k].tag = t]

\* C15: for a markup paste anchored below the editing root, the style context
\* handed to the sanitizer has a category active iff an ancestor of the anchor
\* that is a descendant of the root carries its tag; the ancestors up to the
\* root's direct child are all inspected, in order, and nothing else is.
C15_StyleFromAncestors ==
  \A i \in 1..Len(paste) :
    (/\ IsMarkupPaste(paste[i])
     /\ paste[i].s.path # << >>
     /\ RootIndex(paste[i].s.path) > 1) =>
      LET path == paste[i].s.path
          w == paste[i].walk[1]
      IN /\ ~w.raises
         /\ w.visited = [k \in 1..(RootIndex(path) - 2) |-> k + 1]
         /\ w.style = AncestorStyle(path)
         /\ paste[i].inserted # << >>
         /\ paste[i].inserted[1].type = "fragment"
         /\ paste[i].inserted[1].style = AncestorStyle(path)
         /\ RootIndex(path) = 2 =>
              \A t \in {"B", "I", "U", "S", "Q"} : ~w.style[t]

C15_Witness ==
  /\ paste # << >>
  /\ IsMarkupPaste(paste[1])
  /\ paste[1].s.path = <<TextNode, Node("B", ""), Node("I", "")>> \o RootChain
  /\ paste[1].inserted # << >>
  /\ paste[1].inserted[1].style =
       [B |-> TRUE, I |-> TRUE, U |-> FALSE, S |-> FALSE, Q |-> FALSE]

\* the range of a paste is one that paste replaces
NonCollapsedInText(p) ==
  /\ p.s.range # << >>
  /\ ~p.s.range[1].collapsed
  /\ p.s.range[1].container = "text"

\* C16: every paste prevents the browser default; with a range that is
\* non-collapsed and lies in one text node the selected content is deleted
\* and then the pasted content inserted; with any other range the existing
\* content stays and the pasted content is inserted; the plain-text and the
\* markup path follow the same rule.
C16_DeleteIffNonCollapsedText ==
  /\ [](\A i \in 1..Len(paste) : paste[i].ops[1] = "preventDefault")
  /\ [][(PasteStep /\ paste'[1].s.range # << >>) =>
          LET p == paste'[1]
              node == IF IsMarkupPaste(p) THEN "#fragment" ELSE "#text"
          IN IF NonCollapsedInText(p)
             THEN /\ visualHTML' =
                       Append(SubSeq(visualHTML, 1, Len(visualHTML) - 1), node)
                  /\ \E k \in 1..(Len(p.ops) - 1) :
                       /\ p.ops[k] = "deleteContents"
                       /\ p.ops[k + 1] = "insertNode"
             ELSE /\ visualHTML' = Append(visualHTML, node)
                  /\ \A k \in 1..Len(p.ops) : p.ops[k] # "deleteContents"
       ]_vars

\* a link completion that changed the visual document
LinkInserted == results' # results /\ visualHTML' # visualHTML

\* C17: whatever was called between insertLink() and the completion of its
\* dialog, a non-null completion changes the visual document only while the
\* mode is Visual.
C17_LinkOnlyInVisualMode ==
  [][LinkInserted => mode = EditorModes.Visual]_vars

\* ------------------------------------------- claims on content and lifecycle
\* a step of getContent() that returned: the only operation with a value
GetContentStep == ret' # << >>

\* the lines of the source editor, each trimmed, joined with one separator
TrimmedLines(v) ==
  LET doc == views[v].doc
  IN Join([i \in 1..Len(doc) |-> Trim(doc[i])])

\* C18: getContent() returns the visual container's markup in Visual mode
\* and, in Code mode, the source editor's trimmed lines joined by one
\* separator, which is exactly what a toggleCodeView() called right after it
\* writes into the visual container; it changes neither the mode nor the
\* content of the visual container or of the source editor.
C18_GetContentCanonicalAndPure ==
  /\ [][GetContentStep =>
          /\ ret'[1] = IF mode = EditorModes.Visual THEN visualHTML
                       ELSE TrimmedLines(codeMirror)
          /\ mode' = mode
          /\ visualHTML' = visualHTML
          /\ views' = views
          /\ codeMirror' = codeMirror]_vars
  /\ [][(ret # << >> /\ ToVisualStep) => visualHTML' = ret[1]]_vars

C18_Witness ==
  /\ mode = EditorModes.Code
  /\ views[codeMirror].doc = <<<<"sp", "a">>, <<"a", "sp">>>>
  /\ ret = << <<"a", "lf", "a">> >>

LiveViews == {i \in 1..Len(views) : views[i].destroys = 0}

\* C20: at most one source editor is live, and it is the one the editor
\* holds; none is destroyed twice; one is created only when every earlier
\* one was destroyed; right after destroy() none is live.
C20_OneLiveInstance ==
  /\ [](/\ Cardinality(LiveViews) <= 1
        /\ \A i \in LiveViews : i = codeMirror
        /\ \A i \in 1..Len(views) : views[i].destroys <= 1)
  /\ [][Len(views') > Len(views) =>
          \A i \in 1..Len(views) : views[i].destroys = 1]_vars
  /\ [][destroy =>
          \A i \in 1..Len(views') : views'[i].destroys >= 1]_vars

C20_Witness ==
  /\ Len(views) = 2
  /\ views[1].destroys = 1
  /\ views[2].destroys = 1
  /\ codeMirror = 0
  /\ mode = EditorModes.Code
  /\ removed = {"code"}
  /\ raised

====
